---- MODULE Spec2Model ----
(***************************************************************************)
(* The chat store of Sqlite/ChatSql.py: three tables (mask, dialogue,      *)
(* message) behind the ChatSql facade.  Every public method opens one      *)
(* session, runs its body inside try/except Exception, and either commits  *)
(* or leaves the tables untouched.  One action per method.                 *)
(***************************************************************************)
EXTENDS Integers, Sequences, FiniteSets, TLC

\* ------------------------------------------------------------------ bounds
MaxMaskId == 2
MaxMessageId == 2
MaxClock == 1

\* ------------------------------------------------------------ input domains
MaskNames == {"default", "Mask1"}
MaskNameArgs == MaskNames \cup {""}
DialogueNames == {"Dialogue1"}
MaskInputs ==
    { [mask_name |-> "default", mask_describe |-> ""],
      [mask_name |-> "Mask1", mask_describe |-> "test mask"] }
NewInfos == {"edited"}

\* ------------------------------------------------------------------- schema
SenderType == {"USER", "GPT"}
SendType == {"TEXT", "IMAGE", "AUDIO"}
NULL == "<NULL>"

\* The arguments of an add_message call; timed = FALSE is a call that leaves
\* send_time out.
MessageInputs ==
    { [sender |-> "USER", send_type |-> "TEXT", send_info |-> "0", send_succeed |-> TRUE,
       timed |-> FALSE, send_time |-> 0],
      [sender |-> "GPT", send_type |-> "IMAGE", send_info |-> "1.png", send_succeed |-> FALSE,
       timed |-> TRUE, send_time |-> 7] }

\* datetime.now() in the signature of add_message is evaluated once, when the
\* def statement runs (module import); the clock starts there.
DefinitionTime == 0

VARIABLES masks, dialogues, messages, clock, requested, call, ret

vars == <<masks, dialogues, messages, clock, requested, call, ret>>

\* ------------------------------------------------------------------ helpers
Max(S) == CHOOSE x \in S : \A y \in S : y <= x

\* Integer primary key on SQLite (rowid alias, no AUTOINCREMENT keyword):
\* the next key is one more than the largest key in the table.
NextId(ids) == IF ids = {} THEN 1 ELSE Max(ids) + 1

MaskIds(ms) == { m.mask_id : m \in ms }
MessageIds(msgs) == { m.id : m \in msgs }

\* query(...).filter_by(...).first(): the empty set stands for None.
first(rows) == IF rows = {} THEN {} ELSE {CHOOSE r \in rows : TRUE}

query_mask(ms, mask_name) == first({ m \in ms : m.mask_name = mask_name })
query_dialogue(ds, dialogue_name) == first({ d \in ds : d.dialogue_name = dialogue_name })
query_message_get(msgs, message_id) == first({ m \in msgs : m.id = message_id })

\* bool(Query): a Query object defines neither __bool__ nor __len__, so it is
\* truthy whatever rows it would return.
QueryTruthy(rows) == TRUE

\* except Exception at every method boundary: nothing reaches the caller.
propagates_unhandled(exc) == exc
propagates(exc) == FALSE

\* What a call hands back: kind says what the rows or the text are ("None" for
\* None, "Mask"/"Dialogue" for one object, "list" for a list, and for
\* __format__ "lines", "text", "not_found" or "exception").
Value(kind, rows, text) == [kind |-> kind, rows |-> rows, text |-> text]
None == Value("None", <<>>, "")
Object(kind, found) ==
    IF found = {} THEN None ELSE Value(kind, <<CHOOSE r \in found : TRUE>>, "")

Returned(value, logged, printed, exc) ==
    [raised |-> propagates(exc), value |-> value, logged |-> logged, printed |-> printed]

\* A set of integer keys as an ascending sequence.
RECURSIVE Ascending(_)
Ascending(ids) ==
    IF ids = {} THEN <<>>
    ELSE LET lo == CHOOSE i \in ids : \A j \in ids : i <= j
         IN <<lo>> \o Ascending(ids \ {lo})

Reverse(s) == [i \in 1..Len(s) |-> s[Len(s) + 1 - i]]

\* Python's s[:n]: the first n items, or all but the last -n when n < 0.
Slice(s, n) ==
    IF n >= 0 THEN SubSeq(s, 1, IF n < Len(s) THEN n ELSE Len(s))
    ELSE SubSeq(s, 1, IF Len(s) + n > 0 THEN Len(s) + n ELSE 0)

\* -------------------------------------------------------------------- masks
\* session.add(Mask(...)); session.commit(): the unique constraint on
\* mask_name rejects a duplicate (IntegrityError) and the session is closed
\* without a commit.
mask_insert_no_unique(ms, mask_name, mask_describe) ==
    [exc |-> FALSE,
     masks |-> ms \cup {[mask_id |-> NextId(MaskIds(ms)), mask_name |-> mask_name,
                         mask_describe |-> mask_describe]}]
mask_insert(ms, mask_name, mask_describe) ==
    IF \E m \in ms : m.mask_name = mask_name
    THEN [exc |-> TRUE, masks |-> ms]
    ELSE [exc |-> FALSE,
          masks |-> ms \cup {[mask_id |-> NextId(MaskIds(ms)), mask_name |-> mask_name,
                              mask_describe |-> mask_describe]}]

add_mask(mask_name, mask_describe) ==
    LET r == mask_insert(masks, mask_name, mask_describe) IN
    /\ r.exc \/ NextId(MaskIds(masks)) <= MaxMaskId
    /\ masks' = r.masks
    /\ call' = [op |-> "add_mask", mask_name |-> mask_name, mask_describe |-> mask_describe]
    /\ ret' = Returned(None, IF r.exc THEN "IntegrityError" ELSE "", "", r.exc)
    /\ UNCHANGED <<dialogues, messages, clock, requested>>

\* ChatSql(): create_all is idempotent on an existing file, then add_mask("default").
init ==
    LET r == mask_insert(masks, "default", "") IN
    /\ r.exc \/ NextId(MaskIds(masks)) <= MaxMaskId
    /\ masks' = r.masks
    /\ call' = [op |-> "init"]
    /\ ret' = Returned(None, IF r.exc THEN "IntegrityError" ELSE "", "", r.exc)
    /\ UNCHANGED <<dialogues, messages, clock, requested>>

get_mask(mask_name) ==
    /\ call' = [op |-> "get_mask", mask_name |-> mask_name]
    /\ ret' = Returned(Object("Mask", query_mask(masks, mask_name)), "", "", FALSE)
    /\ UNCHANGED <<masks, dialogues, messages, clock, requested>>

mask_delete_all(ms, found) == {}
mask_delete(ms, found) == ms \ found

delete_mask(mask_name) ==
    LET mask == query_mask(masks, mask_name) IN
    /\ masks' = IF mask # {} THEN mask_delete(masks, mask) ELSE masks
    /\ call' = [op |-> "delete_mask", mask_name |-> mask_name]
    /\ ret' = Returned(None, "", IF mask # {} THEN "" ELSE "Mask not found", FALSE)
    /\ UNCHANGED <<dialogues, messages, clock, requested>>

\* ---------------------------------------------------------------- dialogues
\* session.add(Dialogue(...)); flush; commit: dialogue_name is the primary key.
dialogue_insert(ds, dialogue_name, mask_id) ==
    IF \E d \in ds : d.dialogue_name = dialogue_name
    THEN [exc |-> TRUE, dialogues |-> ds]
    ELSE [exc |-> FALSE,
          dialogues |-> ds \cup {[dialogue_name |-> dialogue_name, mask_id |-> mask_id]}]

\* The mask create_dialogue resolves: the named one, else the one named "default".
resolve_mask(ms, mask_name) ==
    LET mask == query_mask(ms, mask_name) IN
    IF mask_name = "" \/ mask = {} THEN query_mask(ms, "default") ELSE mask

create_dialogue(name, mask_name) ==
    LET mask == resolve_mask(masks, mask_name)
        found == { d \in dialogues : d.dialogue_name = name }
        r == IF mask = {} THEN [exc |-> TRUE, dialogues |-> dialogues]
             ELSE dialogue_insert(dialogues, name, (CHOOSE m \in mask : TRUE).mask_id)
        returns_early == QueryTruthy(found)
        exc == ~returns_early /\ r.exc
    IN
    /\ dialogues' = IF returns_early THEN dialogues ELSE r.dialogues
    /\ requested' = IF query_mask(masks, "default") # {} THEN requested \cup {name}
                    ELSE requested
    /\ call' = [op |-> "create_dialogue", name |-> name, mask_name |-> mask_name]
    /\ ret' = Returned(None, IF ~exc THEN "" ELSE IF mask = {} THEN "AttributeError"
                                               ELSE "IntegrityError",
                       "", exc)
    /\ UNCHANGED <<masks, messages, clock>>

get_dialogue(dialogue_name) ==
    /\ call' = [op |-> "get_dialogue", dialogue_name |-> dialogue_name]
    /\ ret' = Returned(Object("Dialogue", query_dialogue(dialogues, dialogue_name)), "", "", FALSE)
    /\ UNCHANGED <<masks, dialogues, messages, clock, requested>>

\* ----------------------------------------------------------------- messages
\* send_time: DateTime = datetime.now() -- a call that leaves send_time out gets
\* the object bound when the def statement ran.
send_time_argument(input) == IF input.timed THEN input.send_time ELSE DefinitionTime

\* Message(dialogue=dialogue, ...): the foreign key column takes the key of the
\* Dialogue found, or NULL when the lookup returned None.
message_row_linked_by_name(id, dialogue, dialogue_name, input) ==
    [id |-> id, sender |-> input.sender, send_time |-> send_time_argument(input),
     send_type |-> input.send_type, send_info |-> input.send_info,
     send_succeed |-> input.send_succeed, dialogue_name |-> dialogue_name]
message_row(id, dialogue, dialogue_name, input) ==
    [id |-> id, sender |-> input.sender, send_time |-> send_time_argument(input),
     send_type |-> input.send_type, send_info |-> input.send_info,
     send_succeed |-> input.send_succeed,
     dialogue_name |-> IF dialogue = {} THEN NULL
                       ELSE (CHOOSE d \in dialogue : TRUE).dialogue_name]

add_message(dialogue_name, input) ==
    LET dialogue == query_dialogue(dialogues, dialogue_name)
        id == NextId(MessageIds(messages))
    IN
    /\ id <= MaxMessageId
    /\ messages' = messages \cup {message_row(id, dialogue, dialogue_name, input)}
    /\ call' = [op |-> "add_message", dialogue_name |-> dialogue_name,
                timed |-> input.timed]
    /\ ret' = Returned(None, "", IF dialogue = {} THEN "Dialogue not found" ELSE "", FALSE)
    /\ UNCHANGED <<masks, dialogues, clock, requested>>

message_update_all(msgs, found, new_send_info) ==
    IF found = {} THEN msgs ELSE { [m EXCEPT !.send_info = new_send_info] : m \in msgs }
message_update(msgs, found, new_send_info) ==
    (msgs \ found) \cup { [m EXCEPT !.send_info = new_send_info] : m \in found }

update_message(message_id, new_send_info) ==
    LET message == query_message_get(messages, message_id) IN
    /\ messages' = message_update(messages, message, new_send_info)
    /\ call' = [op |-> "update_message", message_id |-> message_id,
                new_send_info |-> new_send_info]
    /\ ret' = Returned(None, "", IF message # {} THEN "" ELSE "Message not found", FALSE)
    /\ UNCHANGED <<masks, dialogues, clock, requested>>

delete_message(message_id) ==
    LET message == query_message_get(messages, message_id) IN
    /\ messages' = messages \ message
    /\ call' = [op |-> "delete_message", message_id |-> message_id]
    /\ ret' = Returned(None, "", IF message # {} THEN "" ELSE "Message not found", FALSE)
    /\ UNCHANGED <<masks, dialogues, clock, requested>>

\* dialogue.messages: the rows whose dialogue_name is the Dialogue's key, as the
\* table scan yields them (ascending id).
dialogue_messages(msgs, dialogue) ==
    LET rows == { m \in msgs : \E d \in dialogue : m.dialogue_name = d.dialogue_name }
        ids == Ascending(MessageIds(rows))
    IN [i \in 1..Len(ids) |-> CHOOSE m \in rows : m.id = ids[i]]

get_messages_rows(msgs, ds, dialogue_name) ==
    LET dialogue == query_dialogue(ds, dialogue_name) IN
    IF dialogue # {} THEN dialogue_messages(msgs, dialogue) ELSE <<>>

get_messages(dialogue_name) ==
    /\ call' = [op |-> "get_messages", dialogue_name |-> dialogue_name]
    /\ ret' = Returned(Value("list", get_messages_rows(messages, dialogues, dialogue_name), ""),
                       "", "", FALSE)
    /\ UNCHANGED <<masks, dialogues, messages, clock, requested>>

Tick ==
    /\ clock < MaxClock
    /\ clock' = clock + 1
    /\ call' = [op |-> "tick"]
    /\ ret' = Returned(None, "", "", FALSE)
    /\ UNCHANGED <<masks, dialogues, messages, requested>>

\* ------------------------------------------------------------------ format
\* A format_spec is modelled by its tokens, format_spec.split(' ').
IntTokens == {"1", "5"}
FormatSpecs ==
    {<<"dialogues">>, <<"masks">>, <<"messages">>, <<"everything">>}
    \cup { <<"messages", d>> : d \in DialogueNames }
    \cup { <<"messages", n>> : n \in IntTokens }
    \cup { <<"messages", d, n>> : d \in DialogueNames, n \in IntTokens }

\* int(token): the value of a decimal literal, ValueError for anything else.
int(token) ==
    IF token = "1" THEN [exc |-> FALSE, value |-> 1]
    ELSE IF token = "5" THEN [exc |-> FALSE, value |-> 5]
    ELSE [exc |-> TRUE, value |-> 0]

\* "messages" in format_spec, for specs whose other tokens do not contain it.
mentions_messages(format_spec) == \E i \in 1..Len(format_spec) : format_spec[i] = "messages"

\* The fields one message line shows.
message_line(m) ==
    [id |-> m.id, sender |-> m.sender, send_time |-> m.send_time, send_type |-> m.send_type,
     send_info |-> m.send_info, send_succeed |-> m.send_succeed]

\* sorted(messages, key=lambda x: x.id, reverse=True)
sorted_reverse(rows) ==
    LET ids == Reverse(Ascending({ rows[i].id : i \in 1..Len(rows) }))
    IN [k \in 1..Len(ids) |-> rows[CHOOSE i \in 1..Len(rows) : rows[i].id = ids[k]]]

RECURSIVE all_rows(_)
all_rows(rows) ==
    IF rows = {} THEN <<>>
    ELSE LET r == CHOOSE x \in rows : TRUE IN <<r>> \o all_rows(rows \ {r})

mask_rows(ms) ==
    LET ids == Ascending(MaskIds(ms))
    IN [i \in 1..Len(ids) |-> CHOOSE m \in ms : m.mask_id = ids[i]]

\* What __format__ returns, with what it logs: [out, logged, exc].
format_result(ms, ds, msgs, format_spec) ==
    IF format_spec = <<"dialogues">>
    THEN [out |-> Value("lines", all_rows(ds), ""), logged |-> "", exc |-> FALSE]
    ELSE IF format_spec = <<"masks">>
    THEN [out |-> Value("lines", mask_rows(ms), ""), logged |-> "", exc |-> FALSE]
    ELSE IF mentions_messages(format_spec)
    THEN IF Len(format_spec) < 2
         THEN [out |-> Value("text", <<>>, "Miss parameters"), logged |-> "", exc |-> FALSE]
         ELSE LET update_num == int(format_spec[Len(format_spec)])
                  dialogue_name == format_spec[2]
                  dialogue == query_dialogue(ds, dialogue_name)
              IN IF update_num.exc
                 THEN [out |-> Value("exception", <<>>, "invalid literal for int()"),
                       logged |-> "ValueError", exc |-> TRUE]
                 ELSE IF dialogue # {}
                 THEN LET sorted_messages == sorted_reverse(dialogue_messages(msgs, dialogue))
                          print_messages == Slice(sorted_messages, update_num.value)
                      IN [out |-> Value("lines",
                                       [i \in 1..Len(print_messages) |->
                                            message_line(print_messages[i])], ""),
                          logged |-> "", exc |-> FALSE]
                 ELSE [out |-> Value("not_found", <<>>, dialogue_name), logged |-> "",
                       exc |-> FALSE]
    ELSE [out |-> Value("None", <<>>, ""), logged |-> "Unknown format specifier",
          exc |-> FALSE]

format(format_spec) ==
    LET r == format_result(masks, dialogues, messages, format_spec) IN
    /\ call' = [op |-> "format", format_spec |-> format_spec]
    /\ ret' = Returned(r.out, r.logged, "", r.exc)
    /\ UNCHANGED <<masks, dialogues, messages, clock, requested>>

\* ------------------------------------------------------------ specification
Init ==
    /\ masks = {[mask_id |-> 1, mask_name |-> "default", mask_describe |-> ""]}
    /\ dialogues = {}
    /\ messages = {}
    /\ clock = DefinitionTime
    /\ requested = {}
    /\ call = [op |-> "init"]
    /\ ret = Returned(None, "", "", FALSE)

Next ==
    \/ init
    \/ \E i \in MaskInputs : add_mask(i.mask_name, i.mask_describe)
    \/ \E n \in MaskNames : get_mask(n)
    \/ \E n \in MaskNames : delete_mask(n)
    \/ \E n \in DialogueNames, m \in MaskNameArgs : create_dialogue(n, m)
    \/ \E n \in DialogueNames : get_dialogue(n)
    \/ \E n \in DialogueNames, i \in MessageInputs : add_message(n, i)
    \/ \E k \in 1..MaxMessageId, s \in NewInfos : update_message(k, s)
    \/ \E k \in 1..MaxMessageId : delete_message(k)
    \/ \E n \in DialogueNames : get_messages(n)
    \/ \E f \in FormatSpecs : format(f)
    \/ Tick

Spec == Init /\ [][Next]_vars

\* =================================================================== claims
HasDefault(ms) == \E m \in ms : m.mask_name = "default"
Existing(D) == D \in requested \/ \E d \in dialogues : d.dialogue_name = D
StoredFor(msgs, D) == { m \in msgs : m.dialogue_name = D }
Newest(msgs) == CHOOSE m \in msgs : \A n \in msgs : n.id <= m.id
Min(a, b) == IF a < b THEN a ELSE b

\* C1: create_dialogue(name, mask_name) on a store that holds a Mask named
\* "default" and no Dialogue named name inserts exactly one Dialogue named name,
\* whose mask_id is that of the Mask named mask_name when mask_name is non-empty
\* and such a Mask exists, and that of the Mask named "default" otherwise.
C1_CreateDialogueInserts ==
    [][ (/\ call'.op = "create_dialogue"
         /\ HasDefault(masks)
         /\ ~ \E d \in dialogues : d.dialogue_name = call'.name)
        => LET wanted == IF /\ call'.mask_name # ""
                            /\ \E m \in masks : m.mask_name = call'.mask_name
                         THEN call'.mask_name ELSE "default"
           IN \E m \in masks :
                 /\ m.mask_name = wanted
                 /\ dialogues' = dialogues \cup
                        {[dialogue_name |-> call'.name, mask_id |-> m.mask_id]} ]_vars

\* C2: no two Masks ever share a mask_name, and constructing ChatSql again on
\* the same store raises nothing and leaves exactly one Mask named "default".
C2_OneDefaultMask ==
    /\ \A m1 \in masks, m2 \in masks : m1.mask_name = m2.mask_name => m1 = m2
    /\ call.op = "init" =>
          /\ ~ret.raised
          /\ Cardinality({ m \in masks : m.mask_name = "default" }) = 1

\* A second construction whose insert of "default" met the unique constraint,
\* beside another Mask.
C2_Witness ==
    /\ call.op = "init"
    /\ ret.logged = "IntegrityError"
    /\ Cardinality(masks) = 2

\* C3: for a Dialogue D that exists, get_messages(D) returns exactly the stored
\* Messages of D, once each, in ascending id order, so every add_message to D
\* adds one entry to it (N entries after N inserts and no delete).
C3_GetMessagesReturnsInserted ==
    [][ \A D \in DialogueNames : Existing(D)' =>
          LET before == get_messages_rows(messages, dialogues, D)
              after == get_messages_rows(messages', dialogues', D)
          IN /\ { after[i] : i \in 1..Len(after) } = StoredFor(messages', D)
             /\ \A i \in 1..Len(after), j \in 1..Len(after) :
                    i < j => after[i].id < after[j].id
             /\ (call'.op = "add_message" /\ call'.dialogue_name = D /\ Existing(D))
                    => Len(after) = Len(before) + 1 ]_vars

\* C4: format "messages <D> <count>" for an existing Dialogue D holding N
\* Messages returns min(count, N) lines, for the Messages of D with the largest
\* ids, in strictly descending id order; with no Dialogue D, one not-found line.
C4_FormatNewestMessages ==
    (/\ call.op = "format"
     /\ Len(call.format_spec) = 3
     /\ call.format_spec[1] = "messages"
     /\ ~int(call.format_spec[3]).exc)
    => LET D == call.format_spec[2]
           count == int(call.format_spec[3]).value
           stored == StoredFor(messages, D)
           lines == ret.value.rows
       IN IF Existing(D)
          THEN /\ ret.value.kind = "lines"
               /\ Len(lines) = Min(count, Cardinality(stored))
               /\ \A i \in 1..Len(lines) : \E m \in stored : lines[i] = message_line(m)
               /\ \A i \in 1..Len(lines), j \in 1..Len(lines) :
                      i < j => lines[i].id > lines[j].id
               /\ \A m \in stored :
                      (\A i \in 1..Len(lines) : lines[i].id # m.id)
                          => \A i \in 1..Len(lines) : m.id < lines[i].id
          ELSE ret.value.kind = "not_found"

\* C5: an add_message call that leaves send_time out stores the clock value at
\* the moment of the call.
C5_DefaultSendTimeIsCallTime ==
    (call.op = "add_message" /\ ~call.timed) => Newest(messages).send_time = clock

\* C6: a "messages" request that lacks the count token or the dialogue-name
\* token returns "Miss parameters", raises nothing and returns no other text.
C6_MalformedMessagesRequest ==
    (/\ call.op = "format"
     /\ call.format_spec[1] = "messages"
     /\ Len(call.format_spec) < 3)
    => /\ ~ret.raised
       /\ ret.value.kind = "text"
       /\ ret.value.text = "Miss parameters"

\* C7: update_message(id, new) on a stored id sets that Message's send_info to
\* new and changes no other field, Message, Mask or Dialogue; on an id that is
\* not stored it changes nothing; either way it returns normally.
C7_UpdateMessageFrame ==
    [][ call'.op = "update_message" =>
          /\ ~ret'.raised
          /\ masks' = masks
          /\ dialogues' = dialogues
          /\ IF \E m \in messages : m.id = call'.message_id
             THEN \E m \in messages :
                     /\ m.id = call'.message_id
                     /\ messages' = (messages \ {m}) \cup
                            {[id |-> m.id, sender |-> m.sender, send_time |-> m.send_time,
                              send_type |-> m.send_type,
                              send_info |-> call'.new_send_info,
                              send_succeed |-> m.send_succeed,
                              dialogue_name |-> m.dialogue_name]}
             ELSE messages' = messages ]_vars

\* An update that found its Message, beside a Message it left alone.
C7_Witness ==
    /\ call.op = "update_message"
    /\ ret.printed = ""
    /\ \E m \in messages : m.id = call.message_id /\ m.send_info = call.new_send_info
    /\ \E m \in messages : m.id # call.message_id /\ m.send_info # call.new_send_info

C9_AddMaskDuplicate ==
    [][ call'.op = "add_mask" =>
          /\ ~ret'.raised
          /\ dialogues' = dialogues
          /\ messages' = messages
          /\ IF \E m \in masks : m.mask_name = call'.mask_name
             THEN masks' = masks
             ELSE \E m \in masks' :
                     /\ m.mask_name = call'.mask_name
                     /\ m.mask_describe = call'.mask_describe
                     /\ m.mask_id \notin MaskIds(masks)
                     /\ masks' = masks \cup {m} ]_vars

\* A rejected duplicate add_mask, with two Masks in the store.
C9_Witness ==
    /\ call.op = "add_mask"
    /\ ret.logged = "IntegrityError"
    /\ \E m \in masks : m.mask_name = call.mask_name
    /\ Cardinality(masks) = 2

\* C10: add_message with a dialogue_name that names no Dialogue returns
\* normally and adds exactly one Message, whose dialogue_name is NULL and which
\* get_messages returns for no name.
C10_AddMessageWithoutDialogue ==
    [][ (/\ call'.op = "add_message"
         /\ ~ \E d \in dialogues : d.dialogue_name = call'.dialogue_name)
        => /\ ~ret'.raised
           /\ \E m \in messages' :
                 /\ m \notin messages
                 /\ m.id \notin MessageIds(messages)
                 /\ messages' = messages \cup {m}
                 /\ m.dialogue_name = NULL
                 /\ \A n \in DialogueNames \cup {NULL, call'.dialogue_name} :
                       LET rows == get_messages_rows(messages', dialogues', n)
                       IN \A i \in 1..Len(rows) : rows[i] # m ]_vars

\* An add_message that found no Dialogue, after create_dialogue was asked for
\* that name, beside an older Message.
C10_Witness ==
    /\ call.op = "add_message"
    /\ ret.printed = "Dialogue not found"
    /\ call.dialogue_name \in requested
    /\ Cardinality(messages) = 2

====
